---- MODULE Spec2Model ----
(***************************************************************************)
(* The accounting core of the two ledger pallets of substrate-tutorials:   *)
(*   pallets/assets  (fungible registry)  and                              *)
(*   pallets/nfts    (unique-asset registry).                              *)
(* Each pallet is a crate of its own with its own storage and its own      *)
(* runtime; `pallet` names the crate whose runtime is running.             *)
(*                                                                         *)
(* Integer widths are scaled: U128Max stands for u128::MAX, AssetIdMax and *)
(* UniqueAssetIdMax for the largest value of the id types AssetId and      *)
(* UniqueAssetId, so that saturation, checked overflow and unchecked       *)
(* overflow are all reachable.                                             *)
(* An unchecked `+=` / `-=` that leaves the type's range either panics     *)
(* (overflow checks on: the command's writes are discarded) or wraps       *)
(* (overflow checks off); the model takes both outcomes.                   *)
(* Every origin is a signed account: ensure_signed never fails here.       *)
(***************************************************************************)
EXTENDS Integers, Sequences, FiniteSets

\* Largest value of the (scaled) u128 balance / supply type.
U128Max == 2
\* Largest value of the (scaled) id type AssetId of pallets/assets.
AssetIdMax == 1
\* Largest value of the (scaled) id type UniqueAssetId of pallets/nfts.
UniqueAssetIdMax == 2

AssetIds == 0..AssetIdMax
UniqueAssetIds == 0..UniqueAssetIdMax
Amounts == 0..U128Max
Accounts == {"Alice", "Bob"}
\* Vec<u8> inputs: asset name / symbol and unique-asset metadata.
Names == {<<97>>}
Symbols == {<<65>>}
Blobs == {<<>>, <<1>>}

VARIABLES
    pallet,        \* "assets" | "nfts": the crate under execution
    Asset,         \* assets: StorageMap AssetId -> AssetDetails (partial)
    Account,       \* assets: StorageDoubleMap (AssetId, AccountId) -> u128, ValueQuery
    Metadata,      \* assets: StorageMap AssetId -> AssetMetadata (partial)
    Nonce,         \* assets: StorageValue AssetId, ValueQuery
    UniqueAsset,   \* nfts: StorageMap UniqueAssetId -> UniqueAssetDetails (partial)
    NftAccount,    \* nfts: StorageDoubleMap (UniqueAssetId, AccountId) -> u128, ValueQuery
    NftNonce,      \* nfts: StorageValue UniqueAssetId, ValueQuery
    call,          \* name of the last dispatched call
    result,        \* DispatchResult of the last command ("Ok", an Error, or "Panic")
    events,        \* events deposited by the last command
    overflow       \* the last command ran an unchecked +=/-= out of the u128 range

assetsStore == <<Asset, Account, Metadata, Nonce>>
nftsStore == <<UniqueAsset, NftAccount, NftNonce>>
vars == <<pallet, Asset, Account, Metadata, Nonce, UniqueAsset, NftAccount, NftNonce,
          call, result, events, overflow>>

Errors == {"Unknown", "NoPermission", "NotOwned", "NoSupply", "TypeOverflow"}

----------------------------------------------------------------------------
\* Integer primitives of the fixed-width unsigned types (max = the type's MAX).

saturating_add(a, b, max) == IF a + b > max THEN max ELSE a + b

saturating_sub(a, b) == IF a < b THEN 0 ELSE a - b

\* Option<T>: the empty set is None, {v} is Some(v).
checked_add(a, b, max) == IF a + b > max THEN {} ELSE {a + b}

\* Two's-complement wrap of an unchecked operation's mathematical result.
wrapping(x, max) == (x + (max + 1)) % (max + 1)

\* StorageMap::insert
insert(map, key, value) ==
    [k \in (DOMAIN map) \cup {key} |-> IF k = key THEN value ELSE map[k]]

\* StorageDoubleMap::insert / the write-back of StorageDoubleMap::mutate
insert2(map, k1, k2, value) == [map EXCEPT ![k1][k2] = value]

----------------------------------------------------------------------------
\* Constructors of types.rs.

AssetDetails_new(owner) == [owner |-> owner, supply |-> 0]

AssetMetadata_new(name, symbol) == [name |-> name, symbol |-> symbol]

UniqueAssetDetails_new(creator, metadata, supply) ==
    [creator |-> creator, metadata |-> metadata, supply |-> supply]

----------------------------------------------------------------------------
Init ==
    /\ pallet \in {"assets", "nfts"}
    /\ Asset = <<>>
    /\ Account = [a \in AssetIds |-> [w \in Accounts |-> 0]]
    /\ Metadata = <<>>
    /\ Nonce = 0
    /\ UniqueAsset = <<>>
    /\ NftAccount = [a \in UniqueAssetIds |-> [w \in Accounts |-> 0]]
    /\ NftNonce = 0
    /\ call = "none"
    /\ result = "Ok"
    /\ events = <<>>
    /\ overflow = FALSE

\* A command that returns Err(e): every error of both pallets is raised before
\* the command's first storage write, so nothing was written and nothing deposited.
Fail(e) ==
    /\ result' = e
    /\ events' = <<>>
    /\ overflow' = FALSE
    /\ UNCHANGED <<assetsStore, nftsStore>>

\* An unchecked operation overflowed in a build with overflow checks: the command
\* aborts at that statement. Writes the command issued before it (in assets mint
\* the new supply of Asset[asset_id]; in assets burn the reduced
\* Account[asset_id][origin]; in nfts burn / transfer the debited balance) sit in
\* the host's overlay of the aborted call and are discarded with it, the closure of
\* the interrupted try_mutate / mutate never writes back, and no event is
\* deposited: the persisted storage is that of before the command.
Panic ==
    /\ result' = "Panic"
    /\ events' = <<>>
    /\ overflow' = TRUE
    /\ UNCHANGED <<assetsStore, nftsStore>>

\* A command that returns Ok(()) after depositing event e.
Done(e, ovf) ==
    /\ result' = "Ok"
    /\ events' = <<e>>
    /\ overflow' = ovf

----------------------------------------------------------------------------
\* pallets/assets

ensure_is_owner(asset_id, account) ==
    IF asset_id \notin DOMAIN Asset THEN "Unknown"
    ELSE IF Asset[asset_id].owner # account THEN "NoPermission"
    ELSE "Ok"

\* create as it would be with the unique pallet's checked allocator.
assets_create_checked(origin) ==
    /\ pallet = "assets"
    /\ LET id == Nonce
           next == checked_add(id, 1, AssetIdMax)
       IN IF next = {} THEN Fail("TypeOverflow")
          ELSE /\ Asset' = insert(Asset, id, AssetDetails_new(origin))
               /\ Nonce' = CHOOSE n \in next : TRUE
               /\ Done([kind |-> "Created", owner |-> origin, asset_id |-> id], FALSE)
               /\ UNCHANGED <<Account, Metadata, nftsStore>>
    /\ call' = "create"
    /\ UNCHANGED pallet

assets_create(origin) ==
    /\ pallet = "assets"
    /\ LET id == Nonce
           details == AssetDetails_new(origin)
       IN /\ Asset' = insert(Asset, id, details)
          /\ Nonce' = saturating_add(id, 1, AssetIdMax)
          /\ Done([kind |-> "Created", owner |-> origin, asset_id |-> id], FALSE)
    /\ call' = "create"
    /\ UNCHANGED <<pallet, Account, Metadata, nftsStore>>

assets_set_metadata(origin, asset_id, name, symbol) ==
    /\ pallet = "assets"
    /\ LET check == ensure_is_owner(asset_id, origin) IN
       IF check # "Ok" THEN Fail(check)
       ELSE /\ Metadata' = insert(Metadata, asset_id, AssetMetadata_new(name, symbol))
            /\ Done([kind |-> "MetadataSet", asset_id |-> asset_id,
                     name |-> name, symbol |-> symbol], FALSE)
            /\ UNCHANGED <<Asset, Account, Nonce, nftsStore>>
    /\ call' = "set_metadata"
    /\ UNCHANGED pallet

assets_mint(origin, asset_id, amount, to) ==
    /\ pallet = "assets"
    /\ LET check == ensure_is_owner(asset_id, origin) IN
       IF check # "Ok" THEN Fail(check)
       ELSE LET old_supply == Asset[asset_id].supply
                total_supply == saturating_add(old_supply, amount, U128Max)
                minted_amount == total_supply - old_supply
                sum == Account[asset_id][to] + minted_amount
            IN \/ /\ sum > U128Max
                  /\ Panic
               \/ /\ Asset' = [Asset EXCEPT ![asset_id].supply = total_supply]
                  /\ Account' = insert2(Account, asset_id, to, wrapping(sum, U128Max))
                  /\ Done([kind |-> "Minted", asset_id |-> asset_id, owner |-> to,
                           total_supply |-> total_supply], sum > U128Max)
                  /\ UNCHANGED <<Metadata, Nonce, nftsStore>>
    /\ call' = "mint"
    /\ UNCHANGED pallet

\* StorageMap::remove
remove(map, key) == [k \in (DOMAIN map) \ {key} |-> map[k]]

\* burn as it would be if an asset whose supply reaches zero were destroyed.
assets_burn_destroys(origin, asset_id, amount) ==
    /\ pallet = "assets"
    /\ IF asset_id \notin DOMAIN Asset THEN Fail("Unknown")
       ELSE LET old_balance == Account[asset_id][origin]
                balance == saturating_sub(old_balance, amount)
                burned_amount == old_balance - balance
                diff == Asset[asset_id].supply - burned_amount
            IN \/ /\ diff < 0
                  /\ Panic
               \/ /\ Account' = insert2(Account, asset_id, origin, balance)
                  /\ Asset' = IF diff = 0 THEN remove(Asset, asset_id)
                              ELSE [Asset EXCEPT ![asset_id].supply = wrapping(diff, U128Max)]
                  /\ Done([kind |-> "Burned", asset_id |-> asset_id, owner |-> origin,
                           total_supply |-> wrapping(diff, U128Max)], diff < 0)
                  /\ UNCHANGED <<Metadata, Nonce, nftsStore>>
    /\ call' = "burn"
    /\ UNCHANGED pallet

assets_burn(origin, asset_id, amount) ==
    /\ pallet = "assets"
    /\ IF asset_id \notin DOMAIN Asset THEN Fail("Unknown")
       ELSE LET old_balance == Account[asset_id][origin]
                balance == saturating_sub(old_balance, amount)
                burned_amount == old_balance - balance
                diff == Asset[asset_id].supply - burned_amount
            IN \/ /\ diff < 0
                  /\ Panic
               \/ /\ Account' = insert2(Account, asset_id, origin, balance)
                  /\ Asset' = [Asset EXCEPT ![asset_id].supply = wrapping(diff, U128Max)]
                  /\ Done([kind |-> "Burned", asset_id |-> asset_id, owner |-> origin,
                           total_supply |-> wrapping(diff, U128Max)], diff < 0)
                  /\ UNCHANGED <<Metadata, Nonce, nftsStore>>
    /\ call' = "burn"
    /\ UNCHANGED pallet

\* transfer as it would be with the event reporting the amount actually moved,
\* as the unique pallet's transfer does.
assets_transfer_reports_moved(origin, asset_id, amount, to) ==
    /\ pallet = "assets"
    /\ IF asset_id \notin DOMAIN Asset THEN Fail("Unknown")
       ELSE LET old_balance == Account[asset_id][origin]
                balance == saturating_sub(old_balance, amount)
                transfered_amount == old_balance - balance
                debited == insert2(Account, asset_id, origin, balance)
            IN /\ Account' = insert2(debited, asset_id, to,
                      saturating_add(debited[asset_id][to], transfered_amount, U128Max))
               /\ Done([kind |-> "Transferred", asset_id |-> asset_id, from |-> origin,
                        to |-> to, amount |-> transfered_amount], FALSE)
               /\ UNCHANGED <<Asset, Metadata, Nonce, nftsStore>>
    /\ call' = "transfer"
    /\ UNCHANGED pallet

assets_transfer(origin, asset_id, amount, to) ==
    /\ pallet = "assets"
    /\ IF asset_id \notin DOMAIN Asset THEN Fail("Unknown")
       ELSE LET old_balance == Account[asset_id][origin]
                balance == saturating_sub(old_balance, amount)
                transfered_amount == old_balance - balance
                debited == insert2(Account, asset_id, origin, balance)
            IN /\ Account' = insert2(debited, asset_id, to,
                      saturating_add(debited[asset_id][to], transfered_amount, U128Max))
               /\ Done([kind |-> "Transferred", asset_id |-> asset_id, from |-> origin,
                        to |-> to, amount |-> amount], FALSE)
               /\ UNCHANGED <<Asset, Metadata, Nonce, nftsStore>>
    /\ call' = "transfer"
    /\ UNCHANGED pallet

----------------------------------------------------------------------------
\* pallets/nfts

\* nfts mint as it would be with the record and balance written before the
\* allocator's check: an exhausted allocator then fails after the writes.
nfts_mint_insert_first(origin, metadata, supply) ==
    /\ pallet = "nfts"
    /\ IF supply <= 0 THEN Fail("NoSupply")
       ELSE LET id == NftNonce
                next == checked_add(NftNonce, 1, UniqueAssetIdMax)
            IN /\ UniqueAsset' = insert(UniqueAsset, id,
                      UniqueAssetDetails_new(origin, metadata, supply))
               /\ NftAccount' = insert2(NftAccount, id, origin, supply)
               /\ UNCHANGED assetsStore
               /\ IF next = {}
                  THEN /\ result' = "TypeOverflow" /\ events' = <<>> /\ overflow' = FALSE
                       /\ UNCHANGED NftNonce
                  ELSE /\ NftNonce' = CHOOSE n \in next : TRUE
                       /\ Done([kind |-> "Created", creator |-> origin, asset_id |-> id], FALSE)
    /\ call' = "mint"
    /\ UNCHANGED pallet

\* nfts mint as it would be with the minter's balance never stored.
nfts_mint_no_balance(origin, metadata, supply) ==
    /\ pallet = "nfts"
    /\ IF supply <= 0 THEN Fail("NoSupply")
       ELSE LET id == NftNonce
                next == checked_add(NftNonce, 1, UniqueAssetIdMax)
            IN IF next = {} THEN Fail("TypeOverflow")
               ELSE /\ NftNonce' = CHOOSE n \in next : TRUE
                    /\ UniqueAsset' = insert(UniqueAsset, id,
                           UniqueAssetDetails_new(origin, metadata, supply))
                    /\ Done([kind |-> "Created", creator |-> origin, asset_id |-> id], FALSE)
                    /\ UNCHANGED <<NftAccount, assetsStore>>
    /\ call' = "mint"
    /\ UNCHANGED pallet

\* nfts mint as it would be with the fungible pallet's saturating allocator.
nfts_mint_saturating(origin, metadata, supply) ==
    /\ pallet = "nfts"
    /\ IF supply <= 0 THEN Fail("NoSupply")
       ELSE LET id == NftNonce
            IN /\ NftNonce' = saturating_add(NftNonce, 1, UniqueAssetIdMax)
               /\ UniqueAsset' = insert(UniqueAsset, id,
                      UniqueAssetDetails_new(origin, metadata, supply))
               /\ NftAccount' = insert2(NftAccount, id, origin, supply)
               /\ Done([kind |-> "Created", creator |-> origin, asset_id |-> id], FALSE)
               /\ UNCHANGED assetsStore
    /\ call' = "mint"
    /\ UNCHANGED pallet

\* nfts mint as it would be with the balance stored under the nonce read again
\* after it was advanced.
nfts_mint_balance_next_id(origin, metadata, supply) ==
    /\ pallet = "nfts"
    /\ IF supply <= 0 THEN Fail("NoSupply")
       ELSE LET id == NftNonce
                next == checked_add(NftNonce, 1, UniqueAssetIdMax)
            IN IF next = {} THEN Fail("TypeOverflow")
               ELSE /\ NftNonce' = CHOOSE n \in next : TRUE
                    /\ UniqueAsset' = insert(UniqueAsset, id,
                           UniqueAssetDetails_new(origin, metadata, supply))
                    /\ NftAccount' = insert2(NftAccount, NftNonce', origin, supply)
                    /\ Done([kind |-> "Created", creator |-> origin, asset_id |-> id], FALSE)
                    /\ UNCHANGED assetsStore
    /\ call' = "mint"
    /\ UNCHANGED pallet

nfts_mint(origin, metadata, supply) ==
    /\ pallet = "nfts"
    /\ IF supply <= 0 THEN Fail("NoSupply")
       ELSE LET id == NftNonce
                next == checked_add(NftNonce, 1, UniqueAssetIdMax)
            IN IF next = {} THEN Fail("TypeOverflow")
               ELSE /\ NftNonce' = CHOOSE n \in next : TRUE
                    /\ UniqueAsset' = insert(UniqueAsset, id,
                           UniqueAssetDetails_new(origin, metadata, supply))
                    /\ NftAccount' = insert2(NftAccount, id, origin, supply)
                    /\ Done([kind |-> "Created", creator |-> origin, asset_id |-> id], FALSE)
                    /\ UNCHANGED assetsStore
    /\ call' = "mint"
    /\ UNCHANGED pallet

\* The balance both burn and transfer test and clamp against: Self::account(0, who).
origin_amount(who) == NftAccount[0][who]

\* burn as it would be with the ownership check ahead of the existence check.
nfts_burn_owned_first(origin, asset_id, amount) ==
    /\ pallet = "nfts"
    /\ IF ~(origin_amount(origin) > 0) THEN Fail("NotOwned")
       ELSE IF asset_id \notin DOMAIN UniqueAsset THEN Fail("Unknown")
       ELSE LET new_amount == IF amount > origin_amount(origin)
                              THEN origin_amount(origin) ELSE amount
                total_amount == NftAccount[asset_id][origin] - new_amount
                new_supply == UniqueAsset[asset_id].supply - new_amount
            IN \/ /\ (total_amount < 0 \/ new_supply < 0)
                  /\ Panic
               \/ /\ NftAccount' = insert2(NftAccount, asset_id, origin,
                                           wrapping(total_amount, U128Max))
                  /\ UniqueAsset' = [UniqueAsset EXCEPT
                                       ![asset_id].supply = wrapping(new_supply, U128Max)]
                  /\ Done([kind |-> "Burned", asset_id |-> asset_id, owner |-> origin,
                           total_supply |-> wrapping(new_supply, U128Max)],
                          total_amount < 0 \/ new_supply < 0)
                  /\ UNCHANGED <<NftNonce, assetsStore>>
    /\ call' = "burn"
    /\ UNCHANGED pallet

\* burn as it would be with the debit keyed to asset 0 like its ownership check.
nfts_burn_keyed_zero(origin, asset_id, amount) ==
    /\ pallet = "nfts"
    /\ IF asset_id \notin DOMAIN UniqueAsset THEN Fail("Unknown")
       ELSE IF ~(origin_amount(origin) > 0) THEN Fail("NotOwned")
       ELSE LET new_amount == IF amount > origin_amount(origin)
                              THEN origin_amount(origin) ELSE amount
                total_amount == NftAccount[0][origin] - new_amount
                new_supply == UniqueAsset[asset_id].supply - new_amount
            IN \/ /\ (total_amount < 0 \/ new_supply < 0)
                  /\ Panic
               \/ /\ NftAccount' = insert2(NftAccount, 0, origin,
                                           wrapping(total_amount, U128Max))
                  /\ UniqueAsset' = [UniqueAsset EXCEPT
                                       ![asset_id].supply = wrapping(new_supply, U128Max)]
                  /\ Done([kind |-> "Burned", asset_id |-> asset_id, owner |-> origin,
                           total_supply |-> wrapping(new_supply, U128Max)],
                          total_amount < 0 \/ new_supply < 0)
                  /\ UNCHANGED <<NftNonce, assetsStore>>
    /\ call' = "burn"
    /\ UNCHANGED pallet

nfts_burn(origin, asset_id, amount) ==
    /\ pallet = "nfts"
    /\ IF asset_id \notin DOMAIN UniqueAsset THEN Fail("Unknown")
       ELSE IF ~(origin_amount(origin) > 0) THEN Fail("NotOwned")
       ELSE LET new_amount == IF amount > origin_amount(origin)
                              THEN origin_amount(origin) ELSE amount
                total_amount == NftAccount[asset_id][origin] - new_amount
                new_supply == UniqueAsset[asset_id].supply - new_amount
            IN \/ /\ (total_amount < 0 \/ new_supply < 0)
                  /\ Panic
               \/ /\ NftAccount' = insert2(NftAccount, asset_id, origin,
                                           wrapping(total_amount, U128Max))
                  /\ UniqueAsset' = [UniqueAsset EXCEPT
                                       ![asset_id].supply = wrapping(new_supply, U128Max)]
                  /\ Done([kind |-> "Burned", asset_id |-> asset_id, owner |-> origin,
                           total_supply |-> wrapping(new_supply, U128Max)],
                          total_amount < 0 \/ new_supply < 0)
                  /\ UNCHANGED <<NftNonce, assetsStore>>
    /\ call' = "burn"
    /\ UNCHANGED pallet

nfts_transfer(origin, asset_id, amount, to) ==
    /\ pallet = "nfts"
    /\ IF asset_id \notin DOMAIN UniqueAsset THEN Fail("Unknown")
       ELSE IF ~(origin_amount(origin) > 0) THEN Fail("NotOwned")
       ELSE LET new_amount == IF amount > origin_amount(origin)
                              THEN origin_amount(origin) ELSE amount
                total_amount == NftAccount[asset_id][origin] - new_amount
                debited == insert2(NftAccount, asset_id, origin,
                                   wrapping(total_amount, U128Max))
                credit == debited[asset_id][to] + new_amount
            IN \/ /\ (total_amount < 0 \/ credit > U128Max)
                  /\ Panic
               \/ /\ NftAccount' = insert2(debited, asset_id, to, wrapping(credit, U128Max))
                  /\ Done([kind |-> "Transferred", asset_id |-> asset_id, from |-> origin,
                           to |-> to, amount |-> new_amount],
                          total_amount < 0 \/ credit > U128Max)
                  /\ UNCHANGED <<UniqueAsset, NftNonce, assetsStore>>
    /\ call' = "transfer"
    /\ UNCHANGED pallet

----------------------------------------------------------------------------
Next ==
    \/ \E origin \in Accounts : assets_create(origin)
    \/ \E origin \in Accounts, asset_id \in AssetIds, name \in Names, symbol \in Symbols :
          assets_set_metadata(origin, asset_id, name, symbol)
    \/ \E origin \in Accounts, asset_id \in AssetIds, amount \in Amounts, to \in Accounts :
          assets_mint(origin, asset_id, amount, to)
    \/ \E origin \in Accounts, asset_id \in AssetIds, amount \in Amounts :
          assets_burn(origin, asset_id, amount)
    \/ \E origin \in Accounts, asset_id \in AssetIds, amount \in Amounts, to \in Accounts :
          assets_transfer(origin, asset_id, amount, to)
    \/ \E origin \in Accounts, metadata \in Blobs, supply \in Amounts :
          nfts_mint(origin, metadata, supply)
    \/ \E origin \in Accounts, asset_id \in UniqueAssetIds, amount \in Amounts :
          nfts_burn(origin, asset_id, amount)
    \/ \E origin \in Accounts, asset_id \in UniqueAssetIds, amount \in Amounts, to \in Accounts :
          nfts_transfer(origin, asset_id, amount, to)

Spec == Init /\ [][Next]_vars

----------------------------------------------------------------------------
\* Sum of one asset's balances over all accounts (bal : Accounts -> balance).
RECURSIVE SumOver(_, _)
SumOver(bal, S) ==
    IF S = {} THEN 0
    ELSE LET w == CHOOSE x \in S : TRUE IN bal[w] + SumOver(bal, S \ {w})

TotalBalance(bal) == SumOver(bal, Accounts)

Min(a, b) == IF a < b THEN a ELSE b

----------------------------------------------------------------------------
\* C1: fungible registry: after every successful command every existing asset has
\* supply equal to the sum of its balances over all accounts.
C1_SupplyIsSumOfBalances ==
    (pallet = "assets" /\ result = "Ok") =>
        \A a \in DOMAIN Asset : Asset[a].supply = TotalBalance(Account[a])

\* C2: unique registry: after every successful command every existing unique asset
\* has supply equal to the sum of its balances, and no command's balance or supply
\* subtraction goes below zero.
C2_UniqueSupplyIsSumOfBalances ==
    pallet = "nfts" =>
        /\ ~overflow
        /\ result = "Ok" =>
              \A a \in DOMAIN UniqueAsset :
                  UniqueAsset[a].supply = TotalBalance(NftAccount[a])

\* C3: fungible transfer on an existing asset always succeeds and moves
\* delta = min(amount, balance(from)): from is debited delta, to is credited delta
\* (on the entry as the debit left it when to = from), and
\* balance(from) + balance(to) is the same before and after.
C3_TransferPost(origin, asset_id, amount, to) ==
    LET B == Account[asset_id][origin]
        delta == Min(amount, B)
    IN /\ result' = "Ok"
       /\ Account'[asset_id][origin] = (IF to = origin THEN B ELSE B - delta)
       /\ Account'[asset_id][to] = (IF to = origin THEN B ELSE Account[asset_id][to] + delta)
       /\ Account'[asset_id][origin] + Account'[asset_id][to]
             = Account[asset_id][origin] + Account[asset_id][to]

C3_TransferConserves ==
    [][\A origin \in Accounts, asset_id \in DOMAIN Asset, amount \in Amounts, to \in Accounts :
          assets_transfer(origin, asset_id, amount, to)
              => C3_TransferPost(origin, asset_id, amount, to)]_vars

\* C4: for an existing asset, fungible set_metadata and mint fail with NoPermission
\* whenever the caller is not the recorded owner and succeed whenever it is.
C4_Expected(origin, asset_id) ==
    result' = (IF Asset[asset_id].owner = origin THEN "Ok" ELSE "NoPermission")

C4_PermissionEnforced ==
    [][\A origin \in Accounts, asset_id \in DOMAIN Asset :
          /\ \A name \in Names, symbol \in Symbols :
                assets_set_metadata(origin, asset_id, name, symbol)
                    => C4_Expected(origin, asset_id)
          /\ \A amount \in Amounts, to \in Accounts :
                assets_mint(origin, asset_id, amount, to)
                    => C4_Expected(origin, asset_id)]_vars

\* C5: in both registries, whenever a command returns an error (Unknown,
\* NoPermission, NotOwned, NoSupply, TypeOverflow) the whole persisted state is the
\* state before the command and no event is emitted.
C5_ErrorsChangeNothing ==
    [][result' \in Errors =>
          (UNCHANGED <<assetsStore, nftsStore>> /\ events' = <<>>)]_vars

\* A command failed on a registry that already holds records.
C5_Witness ==
    /\ result = "TypeOverflow"
    /\ DOMAIN UniqueAsset # {}
    /\ events = <<>>

\* C6: in each registry the n-th successful allocation from a fresh registry gets
\* id n-1, no allocation gets an id that already has a record, and the nonce
\* advances by exactly one on every successful allocation and never decreases.
C6_IdsNeverReused ==
    [][/\ Nonce' >= Nonce
       /\ NftNonce' >= NftNonce
       /\ \A origin \in Accounts :
             assets_create(origin) =>
                 /\ events'[1].asset_id \notin DOMAIN Asset
                 /\ events'[1].asset_id = Cardinality(DOMAIN Asset)
                 /\ Nonce' = Nonce + 1
       /\ \A origin \in Accounts, metadata \in Blobs, supply \in Amounts :
             (nfts_mint(origin, metadata, supply) /\ result' = "Ok") =>
                 /\ events'[1].asset_id \notin DOMAIN UniqueAsset
                 /\ events'[1].asset_id = Cardinality(DOMAIN UniqueAsset)
                 /\ NftNonce' = NftNonce + 1]_vars

\* C7: unique mint with supply 0 fails with NoSupply; with supply s > 0 and the
\* allocator not exhausted it succeeds, stores the record (creator = caller, the
\* given metadata, supply = s) under the newly allocated id, and leaves
\* balance(new_id, caller) = s and every other account's balance for new_id zero.
C7_MintPost(origin, metadata, supply) ==
    IF supply = 0 THEN result' = "NoSupply"
    ELSE NftNonce < UniqueAssetIdMax =>
            LET id == NftNonce IN
            /\ result' = "Ok"
            /\ id \notin DOMAIN UniqueAsset
            /\ id \in DOMAIN UniqueAsset'
            /\ UniqueAsset'[id].creator = origin
            /\ UniqueAsset'[id].metadata = metadata
            /\ UniqueAsset'[id].supply = supply
            /\ \A w \in Accounts :
                  NftAccount'[id][w] = (IF w = origin THEN supply ELSE 0)

C7_UniqueMintValidation ==
    [][\A origin \in Accounts, metadata \in Blobs, supply \in Amounts :
          nfts_mint(origin, metadata, supply) => C7_MintPost(origin, metadata, supply)]_vars

\* A second unique asset was minted with a supply above one.
C7_Witness ==
    /\ pallet = "nfts"
    /\ result = "Ok"
    /\ events # <<>>
    /\ events[1].kind = "Created"
    /\ events[1].asset_id = 1
    /\ UniqueAsset[1].supply = U128Max
    /\ NftAccount[1][events[1].creator] = U128Max

\* C8: for every existing unique asset a and caller c, burn fails with NotOwned
\* exactly when balance(a, c) = 0; otherwise it succeeds and takes
\* d = min(amount, balance(a, c)) from balance(a, c) and from supply(a).
C8_BurnPost(c, a, amount) ==
    IF NftAccount[a][c] = 0 THEN result' = "NotOwned"
    ELSE LET d == Min(amount, NftAccount[a][c]) IN
         /\ result' = "Ok"
         /\ NftAccount'[a][c] = NftAccount[a][c] - d
         /\ UniqueAsset'[a].supply = UniqueAsset[a].supply - d

C8_BurnKeyedToAsset ==
    [][\A c \in Accounts, a \in DOMAIN UniqueAsset, amount \in Amounts :
          nfts_burn(c, a, amount) => C8_BurnPost(c, a, amount)]_vars

\* C9: for every existing unique asset a and caller c, transfer fails with NotOwned
\* exactly when balance(a, c) = 0; otherwise it succeeds, moves
\* d = min(amount, balance(a, c)) from balance(a, c) to balance(a, to), leaves
\* supply(a) and balance(a, c) + balance(a, to) unchanged, and the Transferred
\* event carries amount = d.
C9_TransferPost(c, a, amount, to) ==
    IF NftAccount[a][c] = 0 THEN result' = "NotOwned"
    ELSE LET B == NftAccount[a][c]
             d == Min(amount, B)
         IN /\ result' = "Ok"
            /\ NftAccount'[a][c] = (IF to = c THEN B ELSE B - d)
            /\ NftAccount'[a][to] = (IF to = c THEN B ELSE NftAccount[a][to] + d)
            /\ UniqueAsset'[a].supply = UniqueAsset[a].supply
            /\ events' = <<[kind |-> "Transferred", asset_id |-> a, from |-> c,
                            to |-> to, amount |-> d]>>

C9_TransferKeyedToAsset ==
    [][\A c \in Accounts, a \in DOMAIN UniqueAsset, amount \in Amounts, to \in Accounts :
          nfts_transfer(c, a, amount, to) => C9_TransferPost(c, a, amount, to)]_vars

\* C10: with the unique registry's nonce at its maximum, mint with supply > 0 fails
\* with TypeOverflow, touches no state and consumes no identifier; for every
\* smaller nonce the allocation succeeds.
C10_MintPost ==
    IF NftNonce = UniqueAssetIdMax
    THEN /\ result' = "TypeOverflow"
         /\ events' = <<>>
         /\ UNCHANGED nftsStore
    ELSE /\ result' = "Ok"
         /\ NftNonce' = NftNonce + 1
         /\ events'[1].asset_id = NftNonce

C10_AllocatorExhaustion ==
    [][\A origin \in Accounts, metadata \in Blobs, supply \in Amounts \ {0} :
          nfts_mint(origin, metadata, supply) => C10_MintPost]_vars

\* A mint was refused by the exhausted allocator: every id below the maximum is
\* taken and the maximum itself is not.
C10_Witness ==
    /\ result = "TypeOverflow"
    /\ NftNonce = UniqueAssetIdMax
    /\ DOMAIN UniqueAsset = 0..(UniqueAssetIdMax - 1)

\* C11: fungible create never fails for any nonce value; with the nonce at the
\* maximum it returns that maximum as the asset id and leaves the nonce at the
\* maximum, so every later create returns the maximum too.
C11_CreatePost(origin) ==
    /\ result' = "Ok"
    /\ events' = <<[kind |-> "Created", owner |-> origin, asset_id |-> Nonce]>>
    /\ Nonce \in DOMAIN Asset'
    /\ Nonce = AssetIdMax => Nonce' = AssetIdMax

C11_CreateSaturates ==
    [][\A origin \in Accounts : assets_create(origin) => C11_CreatePost(origin)]_vars

\* A create at the saturated nonce returned the maximum id once more: the id's
\* earlier balances are still there under the fresh record.
C11_Witness ==
    /\ pallet = "assets"
    /\ call = "create"
    /\ result = "Ok"
    /\ Nonce = AssetIdMax
    /\ events[1].asset_id = AssetIdMax
    /\ TotalBalance(Account[AssetIdMax]) > 0

\* C12: in both registries an asset id that has a record has one in every later
\* state, also once its supply and all its balances are zero.
C12_NoDestruction ==
    [][/\ DOMAIN Asset \subseteq DOMAIN Asset'
       /\ DOMAIN UniqueAsset \subseteq DOMAIN UniqueAsset']_vars

\* A burn took a unique asset's supply (positive at mint) and all its balances to
\* zero; the record stays.
C12_Witness ==
    /\ pallet = "nfts"
    /\ call = "burn"
    /\ result = "Ok"
    /\ events[1].asset_id \in DOMAIN UniqueAsset
    /\ UniqueAsset[events[1].asset_id].supply = 0
    /\ TotalBalance(NftAccount[events[1].asset_id]) = 0

\* C13: a successful fungible mint by the owner sets supply to
\* min(old_supply + amount, MAX), adds exactly new_supply - old_supply to
\* balance(asset_id, to) with an addition that never overflows in any reachable
\* state, and the Minted event carries the new supply.
C13_MintPost(origin, asset_id, amount, to) ==
    LET old_supply == Asset[asset_id].supply
        new_supply == Min(old_supply + amount, U128Max)
    IN /\ result' = "Ok"
       /\ ~overflow'
       /\ Asset'[asset_id].supply = new_supply
       /\ Account'[asset_id][to] = Account[asset_id][to] + (new_supply - old_supply)
       /\ events' = <<[kind |-> "Minted", asset_id |-> asset_id, owner |-> to,
                       total_supply |-> new_supply]>>

C13_MintAppliesClampedDelta ==
    [][\A origin \in Accounts, asset_id \in DOMAIN Asset, amount \in Amounts, to \in Accounts :
          (Asset[asset_id].owner = origin /\ assets_mint(origin, asset_id, amount, to))
              => C13_MintPost(origin, asset_id, amount, to)]_vars

\* C14: for an existing asset, fungible burn succeeds for any caller and amount,
\* takes d = min(amount, old balance) from balance(asset_id, caller) and from the
\* supply, and the supply subtraction never underflows (supply >= d).
C14_BurnPost(origin, asset_id, amount) ==
    LET d == Min(amount, Account[asset_id][origin])
    IN /\ result' = "Ok"
       /\ ~overflow'
       /\ Asset[asset_id].supply >= d
       /\ Account'[asset_id][origin] = Account[asset_id][origin] - d
       /\ Asset'[asset_id].supply = Asset[asset_id].supply - d

C14_BurnNeverUnderflows ==
    [][\A origin \in Accounts, asset_id \in DOMAIN Asset, amount \in Amounts :
          assets_burn(origin, asset_id, amount)
              => C14_BurnPost(origin, asset_id, amount)]_vars

\* C15: for an asset id without a record, fungible set_metadata, mint, burn and
\* transfer and unique burn and transfer all fail with Unknown, for every caller,
\* amount and recipient (Unknown, not NoPermission or NotOwned).
C15_UnknownFirst ==
    [][/\ (pallet = "assets" /\ call' = "set_metadata") =>
             \A origin \in Accounts, asset_id \in AssetIds \ DOMAIN Asset,
                name \in Names, symbol \in Symbols :
                assets_set_metadata(origin, asset_id, name, symbol)
                    => result' = "Unknown"
       /\ (pallet = "assets" /\ call' = "mint") =>
             \A origin \in Accounts, asset_id \in AssetIds \ DOMAIN Asset,
                amount \in Amounts, to \in Accounts :
                assets_mint(origin, asset_id, amount, to) => result' = "Unknown"
       /\ (pallet = "assets" /\ call' = "burn") =>
             \A origin \in Accounts, asset_id \in AssetIds \ DOMAIN Asset,
                amount \in Amounts :
                assets_burn(origin, asset_id, amount) => result' = "Unknown"
       /\ (pallet = "assets" /\ call' = "transfer") =>
             \A origin \in Accounts, asset_id \in AssetIds \ DOMAIN Asset,
                amount \in Amounts, to \in Accounts :
                assets_transfer(origin, asset_id, amount, to) => result' = "Unknown"
       /\ (pallet = "nfts" /\ call' = "burn") =>
             \A origin \in Accounts, asset_id \in UniqueAssetIds \ DOMAIN UniqueAsset,
                amount \in Amounts :
                nfts_burn(origin, asset_id, amount) => result' = "Unknown"
       /\ (pallet = "nfts" /\ call' = "transfer") =>
             \A origin \in Accounts, asset_id \in UniqueAssetIds \ DOMAIN UniqueAsset,
                amount \in Amounts, to \in Accounts :
                nfts_transfer(origin, asset_id, amount, to) => result' = "Unknown"]_vars

\* A unique burn named an id without a record while no account held any of asset 0:
\* the caller would also have failed the ownership check.
C15_Witness ==
    /\ pallet = "nfts"
    /\ call = "burn"
    /\ result = "Unknown"
    /\ DOMAIN UniqueAsset # {}
    /\ TotalBalance(NftAccount[0]) = 0

\* C16: every successful fungible transfer emits exactly one Transferred event,
\* whose amount is the requested amount; that differs from the amount moved
\* whenever the request exceeds the caller's balance.
C16_TransferPost(origin, asset_id, amount, to) ==
    LET B == Account[asset_id][origin]
        moved == B - saturating_sub(B, amount)
    IN /\ result' = "Ok"
       /\ events' = <<[kind |-> "Transferred", asset_id |-> asset_id, from |-> origin,
                       to |-> to, amount |-> amount]>>
       /\ to # origin => Account'[asset_id][origin] = B - moved
       /\ amount > B => events'[1].amount # moved

C16_EventReportsRequest ==
    [][(pallet = "assets" /\ call' = "transfer") =>
          \A origin \in Accounts, asset_id \in DOMAIN Asset, amount \in Amounts,
             to \in Accounts :
             assets_transfer(origin, asset_id, amount, to)
                 => C16_TransferPost(origin, asset_id, amount, to)]_vars

\* A transfer asked for more than all accounts together hold of the asset and the
\* event reports the request.
C16_Witness ==
    /\ pallet = "assets"
    /\ call = "transfer"
    /\ result = "Ok"
    /\ events[1].from # events[1].to
    /\ Account[events[1].asset_id][events[1].to] > 0
    /\ events[1].amount > TotalBalance(Account[events[1].asset_id])

\* C17: the owner recorded for a fungible asset is fixed at its creation: no
\* command changes the owner of an asset that already exists, and no command
\* other than burn resets an existing asset's supply to zero.
C17_OwnerFixed ==
    [][\A a \in DOMAIN Asset :
          /\ Asset'[a].owner = Asset[a].owner
          /\ (Asset[a].supply > 0 /\ Asset'[a].supply = 0) => call' = "burn"]_vars

\* C18: in every reachable state of both registries a nonzero balance entry
\* (asset_id, account) exists only for an asset_id that has a record, and every
\* existing asset id is strictly below the nonce or is the saturated maximum.
C18_BalancesOnlyForRecords ==
    /\ \A a \in AssetIds :
          /\ (\E w \in Accounts : Account[a][w] # 0) => a \in DOMAIN Asset
          /\ a \in DOMAIN Asset => (a < Nonce \/ (a = AssetIdMax /\ Nonce = AssetIdMax))
    /\ \A a \in UniqueAssetIds :
          /\ (\E w \in Accounts : NftAccount[a][w] # 0) => a \in DOMAIN UniqueAsset
          /\ a \in DOMAIN UniqueAsset => a < NftNonce

\* Both accounts hold a balance of the fungible asset whose id is the saturated
\* maximum (an existing id that is not below the nonce).
C18_Witness ==
    /\ pallet = "assets"
    /\ Nonce = AssetIdMax
    /\ AssetIdMax \in DOMAIN Asset
    /\ \A w \in Accounts : Account[AssetIdMax][w] > 0

\* C19: frame conditions. A successful transfer (either registry) changes only
\* balance(asset_id, caller) and balance(asset_id, to); a successful burn changes
\* only balance(asset_id, caller) and the supply of asset_id; a successful
\* set_metadata changes only the metadata of asset_id. Every other record and
\* balance, every owner / creator, all other metadata and the nonce are unchanged.
C19_BalancesFrame(old, new, ids, asset_id, touched) ==
    \A a \in ids, w \in Accounts :
        (a # asset_id \/ w \notin touched) => new[a][w] = old[a][w]

C19_RecordsFrame(old, new, asset_id) ==
    /\ DOMAIN new = DOMAIN old
    /\ \A a \in DOMAIN old :
          IF a = asset_id THEN [new[a] EXCEPT !.supply = old[a].supply] = old[a]
          ELSE new[a] = old[a]

C19_MetadataFrame(asset_id) ==
    /\ DOMAIN Metadata' = DOMAIN Metadata \cup {asset_id}
    /\ \A a \in DOMAIN Metadata : a # asset_id => Metadata'[a] = Metadata[a]

C19_FrameConditions ==
    [][result' = "Ok" =>
        /\ (pallet = "assets" /\ call' = "transfer") =>
              \A origin \in Accounts, asset_id \in AssetIds, amount \in Amounts,
                 to \in Accounts :
                 assets_transfer(origin, asset_id, amount, to) =>
                     /\ UNCHANGED <<Asset, Metadata, Nonce>>
                     /\ C19_BalancesFrame(Account, Account', AssetIds, asset_id,
                                          {origin, to})
        /\ (pallet = "nfts" /\ call' = "transfer") =>
              \A origin \in Accounts, asset_id \in UniqueAssetIds, amount \in Amounts,
                 to \in Accounts :
                 nfts_transfer(origin, asset_id, amount, to) =>
                     /\ UNCHANGED <<UniqueAsset, NftNonce>>
                     /\ C19_BalancesFrame(NftAccount, NftAccount', UniqueAssetIds,
                                          asset_id, {origin, to})
        /\ (pallet = "assets" /\ call' = "burn") =>
              \A origin \in Accounts, asset_id \in AssetIds, amount \in Amounts :
                 assets_burn(origin, asset_id, amount) =>
                     /\ UNCHANGED <<Metadata, Nonce>>
                     /\ C19_RecordsFrame(Asset, Asset', asset_id)
                     /\ C19_BalancesFrame(Account, Account', AssetIds, asset_id, {origin})
        /\ (pallet = "nfts" /\ call' = "burn") =>
              \A origin \in Accounts, asset_id \in UniqueAssetIds, amount \in Amounts :
                 nfts_burn(origin, asset_id, amount) =>
                     /\ UNCHANGED NftNonce
                     /\ C19_RecordsFrame(UniqueAsset, UniqueAsset', asset_id)
                     /\ C19_BalancesFrame(NftAccount, NftAccount', UniqueAssetIds,
                                          asset_id, {origin})
        /\ (pallet = "assets" /\ call' = "set_metadata") =>
              \A origin \in Accounts, asset_id \in AssetIds, name \in Names,
                 symbol \in Symbols :
                 assets_set_metadata(origin, asset_id, name, symbol) =>
                     /\ UNCHANGED <<Asset, Account, Nonce>>
                     /\ C19_MetadataFrame(asset_id)]_vars

\* A unique burn of asset 1 went through while its caller still holds asset 0.
C19_Witness ==
    /\ pallet = "nfts"
    /\ call = "burn"
    /\ result = "Ok"
    /\ ~overflow
    /\ events[1].asset_id = 1
    /\ events[1].total_supply < UniqueAsset[0].supply
    /\ NftAccount[0][events[1].owner] > 0

\* C20: a unique asset's record is never overwritten after it is minted: across
\* any command sequence its creator and metadata never change and its supply
\* never increases.
C20_UniqueRecordStable ==
    [][\A a \in DOMAIN UniqueAsset :
          /\ UniqueAsset'[a].creator = UniqueAsset[a].creator
          /\ UniqueAsset'[a].metadata = UniqueAsset[a].metadata
          /\ UniqueAsset'[a].supply <= UniqueAsset[a].supply]_vars

====
